---- MODULE Spec2Model ----
(***************************************************************************)
(* Conway's Game of Life on a toroidal board (src/life.py).                *)
(*                                                                         *)
(* The board is a list of rows, each row a list of booleans.  Python       *)
(* indexes from 0 and TLA+ sequences from 1, so the row index f and the    *)
(* column index c keep their Python values and the cell (f, c) of a board  *)
(* g is g[f + 1][c + 1].  A Python string is a sequence of one-character   *)
(* strings.  A function that can raise returns a record                    *)
(* [error |-> name of the exception or "none", valor |-> the result].      *)
(***************************************************************************)
EXTENDS Integers, Sequences, FiniteSets

\* ---------------------------------------------------------------- bounds
\* Rectangular boards of at least one row and one column and at most this
\* many cells (1x9, 2x4, 3x3, 4x2, 9x1, ...).
MaxCeldas == 9
\* Arbitrary (possibly empty or jagged) lists of rows: at most this many rows
\* of at most this many cells each.
MaxFilasIrregular == 2
MaxColumnasIrregular == 2
\* How far outside the board a caller's position may lie.
Fuera == 2
\* Generations the driver loop is followed for.
MaxGen == 2
\* Largest board the three-in-a-row pattern is placed on (smallest is 5x5).
MaxFilasBlinker == 6
MaxColumnasBlinker == 6

VARIABLES
    pc,         \* position of the program
    mapa,       \* argument of life_crear: a list of strings
    life,       \* the board `life` of main / the argument of the functions
    salida,     \* the list of strings returned by life_mostrar
    entrada,    \* the board as it was when life_siguiente was called
    siguiente,  \* life_siguiente: the board being built
    fila,       \* life_siguiente: the row being built
    f,          \* row index (loop variable or argument)
    c,          \* column index (loop variable or argument)
    n,          \* the count last returned by cant_adyacentes
    err,        \* the exception that ended the program, or "none"
    forma0,     \* the row lengths of the first board
    inicial,    \* the first board, where the run records it
    gen         \* number of completed calls of life_siguiente

vars == <<pc, mapa, life, salida, entrada, siguiente, fila, f, c, n, err,
          forma0, inicial, gen>>

\* ------------------------------------------------------------ input sets
\* '.', '#' and one character that is neither.
Simbolos == {".", "#", "x"}

Cadenas(maxAncho) == UNION {[1..w -> Simbolos] : w \in 0..maxAncho}

Mapas(maxLineas, maxAncho) ==
    UNION {[1..r -> Cadenas(maxAncho)] : r \in 0..maxLineas}

Tablero(r, w) == [1..r -> [1..w -> BOOLEAN]]

Rectangulares(maxCeldas) ==
    UNION {Tablero(d[1], d[2]) :
           d \in {e \in (1..maxCeldas) \X (1..maxCeldas) : e[1] * e[2] <= maxCeldas}}

Irregulares(maxF, maxC) ==
    UNION {[1..r -> UNION {[1..w -> BOOLEAN] : w \in 0..maxC}] : r \in 0..maxF}

Ok(v) == [error |-> "none", valor |-> v]
Falla(e) == [error |-> e, valor |-> 0]

\* ------------------------------------------------------------ Grid codec
\* life_crear: '#' becomes True, every other character False.
life_crear_recortado(m) ==
    [k \in 1..Len(m) |->
        [j \in 1..Len(m[1]) |-> IF j <= Len(m[k]) THEN m[k][j] = "#" ELSE FALSE]]

life_crear_invertido(m) ==
    [k \in 1..Len(m) |-> [j \in 1..Len(m[k]) |-> m[k][j] = "."]]

life_crear(m) ==
    [k \in 1..Len(m) |-> [j \in 1..Len(m[k]) |-> m[k][j] = "#"]]

\* life_mostrar: True becomes '#', False '.'.
life_mostrar(g) ==
    [k \in 1..Len(g) |->
        [j \in 1..Len(g[k]) |-> IF g[k][j] = TRUE THEN "#" ELSE "."]]

\* -------------------------------------------------------- Neighbor counter
\* The k-th pair (i, j) of `for i in range(-1, 2): for j in range(-1, 2)`.
DesplazamientoI(k) == ((k - 1) \div 3) - 1
DesplazamientoJ(k) == ((k - 1) % 3) - 1

\* Variant: the position itself is not skipped.
RECURSIVE contar_incluye_centro(_, _, _, _, _)
contar_incluye_centro(g, pf, pc0, k, contador) ==
    IF k > 9 THEN Ok(contador)
    ELSE IF Len(g[1]) = 0 THEN Falla("ZeroDivisionError")
    ELSE LET fila_adyacente == (pf + DesplazamientoI(k)) % Len(g)
             columna_adyacente == (pc0 + DesplazamientoJ(k)) % Len(g[1])
         IN  IF columna_adyacente >= Len(g[fila_adyacente + 1])
             THEN Falla("IndexError")
             ELSE contar_incluye_centro(g, pf, pc0, k + 1,
                      contador +
                      IF g[fila_adyacente + 1][columna_adyacente + 1]
                      THEN 1 ELSE 0)

\* Variant: a neighbour that wraps onto the position itself is skipped too.
RECURSIVE contar_sin_propia(_, _, _, _, _)
contar_sin_propia(g, pf, pc0, k, contador) ==
    IF k > 9 THEN Ok(contador)
    ELSE IF Len(g[1]) = 0 THEN Falla("ZeroDivisionError")
    ELSE LET fila_adyacente == (pf + DesplazamientoI(k)) % Len(g)
             columna_adyacente == (pc0 + DesplazamientoJ(k)) % Len(g[1])
         IN  IF fila_adyacente = pf % Len(g) /\ columna_adyacente = pc0 % Len(g[1])
             THEN contar_sin_propia(g, pf, pc0, k + 1, contador)
             ELSE IF columna_adyacente >= Len(g[fila_adyacente + 1])
             THEN Falla("IndexError")
             ELSE contar_sin_propia(g, pf, pc0, k + 1,
                      contador +
                      IF g[fila_adyacente + 1][columna_adyacente + 1]
                      THEN 1 ELSE 0)

\* Variant: no wraparound, a neighbour beyond an edge is not counted.
RECURSIVE contar_sin_borde(_, _, _, _, _)
contar_sin_borde(g, pf, pc0, k, contador) ==
    IF k > 9 THEN Ok(contador)
    ELSE LET i == DesplazamientoI(k)
             j == DesplazamientoJ(k)
         IN  IF (i = 0 /\ j = 0)
                \/ pf + i < 0 \/ pf + i >= Len(g)
                \/ pc0 + j < 0 \/ pc0 + j >= Len(g[pf + i + 1])
             THEN contar_sin_borde(g, pf, pc0, k + 1, contador)
             ELSE contar_sin_borde(g, pf, pc0, k + 1,
                      contador + IF g[pf + i + 1][pc0 + j + 1] THEN 1 ELSE 0)

\* The loop of cant_adyacentes from its k-th iteration on.
RECURSIVE contar(_, _, _, _, _)
contar(g, pf, pc0, k, contador) ==
    IF k > 9 THEN Ok(contador)
    ELSE LET i == DesplazamientoI(k)
             j == DesplazamientoJ(k)
         IN  IF i = 0 /\ j = 0 THEN contar(g, pf, pc0, k + 1, contador)
             ELSE IF Len(g[1]) = 0 THEN Falla("ZeroDivisionError")
             ELSE LET fila_adyacente == (pf + i) % Len(g)
                      columna_adyacente == (pc0 + j) % Len(g[1])
                  IN  IF columna_adyacente >= Len(g[fila_adyacente + 1])
                      THEN Falla("IndexError")
                      ELSE contar(g, pf, pc0, k + 1,
                                  contador +
                                  IF g[fila_adyacente + 1][columna_adyacente + 1]
                                  THEN 1 ELSE 0)

\* Variant: a position outside the board is refused.
cant_adyacentes_acotado(g, pf, pc0) ==
    IF Len(g) = 0 \/ pf < 0 \/ pf >= Len(g) \/ pc0 < 0 \/ pc0 >= Len(g[1])
    THEN Falla("IndexError")
    ELSE contar(g, pf, pc0, 1, 0)

cant_adyacentes(g, pf, pc0) ==
    IF Len(g) = 0 THEN Falla("IndexError") ELSE contar(g, pf, pc0, 1, 0)

\* ------------------------------------------------------- Generation engine
\* Variant: a dead cell is never born.
celda_siguiente_sin_nacimiento(g, pf, pc0) ==
    IF pf >= Len(g) \/ pc0 >= Len(g[pf + 1]) THEN Falla("IndexError")
    ELSE LET celda == g[pf + 1][pc0 + 1]
             r == cant_adyacentes(g, pf, pc0)
         IN  IF r.error # "none" THEN r
             ELSE IF celda = TRUE
                  THEN Ok(r.valor = 2 \/ r.valor = 3)
                  ELSE Ok(celda)

\* Variant: a live cell survives with any count from 2 up.
celda_siguiente_superpoblacion(g, pf, pc0) ==
    IF pf >= Len(g) \/ pc0 >= Len(g[pf + 1]) THEN Falla("IndexError")
    ELSE LET celda == g[pf + 1][pc0 + 1]
             r == cant_adyacentes(g, pf, pc0)
         IN  IF r.error # "none" THEN r
             ELSE IF celda = TRUE
                  THEN Ok(r.valor >= 2)
                  ELSE IF r.valor = 3 THEN Ok(TRUE) ELSE Ok(celda)

celda_siguiente(g, pf, pc0) ==
    IF pf >= Len(g) \/ pc0 >= Len(g[pf + 1]) THEN Falla("IndexError")
    ELSE LET celda == g[pf + 1][pc0 + 1]
             r == cant_adyacentes(g, pf, pc0)
         IN  IF r.error # "none" THEN r
             ELSE IF celda = TRUE
                  THEN Ok(r.valor = 2 \/ r.valor = 3)
                  ELSE IF r.valor = 3 THEN Ok(TRUE) ELSE Ok(celda)

\* len(life) and len(life[0]) as a caller sees them (0 columns when there is
\* no first row).
Dim(g) == <<Len(g), IF Len(g) = 0 THEN 0 ELSE Len(g[1])>>

\* The row lengths of a board or of a list of strings.
Forma(g) == [k \in 1..Len(g) |-> Len(g[k])]

\* range(len(life[0])) of life_siguiente.
Columnas_cuadrado(g) == Len(g)

Columnas(g) == Len(g[1])

\* --------------------------------------------------------------- actions
\* main: life = life_crear([...])
Crear ==
    /\ pc = "crear"
    /\ life' = life_crear(mapa)
    /\ pc' = "mostrar"
    /\ UNCHANGED <<mapa, salida, entrada, siguiente, fila, f, c, n, err,
                   forma0, inicial, gen>>

\* main: for linea in life_mostrar(life): print(linea)
Mostrar ==
    /\ pc = "mostrar"
    /\ salida' = life_mostrar(life)
    /\ pc' = "input"
    /\ UNCHANGED <<mapa, life, entrada, siguiente, fila, f, c, n, err,
                   forma0, inicial, gen>>

\* main: input(...) ended by CTRL+C
Interrumpir ==
    /\ pc = "input"
    /\ pc' = "fin"
    /\ err' = "KeyboardInterrupt"
    /\ UNCHANGED <<mapa, life, salida, entrada, siguiente, fila, f, c, n,
                   forma0, inicial, gen>>

\* main: input(...) ended by Enter, then the call life_siguiente(life):
\* siguiente = [] and the first evaluation of range(len(life)).
Enter ==
    /\ pc = "input"
    /\ gen < MaxGen
    /\ entrada' = life
    /\ siguiente' = <<>>
    /\ fila' = <<>>
    /\ f' = 0
    /\ c' = 0
    /\ pc' = "for_f"
    /\ UNCHANGED <<mapa, life, salida, n, err, forma0, inicial, gen>>

\* life_siguiente: `for f in range(len(life))` has a next row: fila = []
FilaInicio ==
    /\ pc = "for_f"
    /\ f < Len(life)
    /\ fila' = <<>>
    /\ c' = 0
    /\ pc' = "for_c"
    /\ UNCHANGED <<mapa, life, salida, entrada, siguiente, f, n, err,
                   forma0, inicial, gen>>

\* Variant: the new state of the cell is also written into the board read.
CeldaPaso_en_sitio ==
    /\ pc = "for_c"
    /\ c < Columnas(life)
    /\ LET r == celda_siguiente(life, f, c)
       IN  IF r.error = "none"
           THEN /\ fila' = Append(fila, r.valor)
                /\ life' = [life EXCEPT ![f + 1][c + 1] = r.valor]
                /\ n' = cant_adyacentes(life, f, c).valor
                /\ c' = c + 1
                /\ UNCHANGED <<pc, err>>
           ELSE /\ err' = r.error
                /\ pc' = "fin"
                /\ UNCHANGED <<fila, n, c, life>>
    /\ UNCHANGED <<mapa, salida, entrada, siguiente, f,
                   forma0, inicial, gen>>

\* life_siguiente: fila.append(celda_siguiente(life, f, c))
CeldaPaso ==
    /\ pc = "for_c"
    /\ c < Columnas(life)
    /\ LET r == celda_siguiente(life, f, c)
       IN  IF r.error = "none"
           THEN /\ fila' = Append(fila, r.valor)
                /\ n' = cant_adyacentes(life, f, c).valor
                /\ c' = c + 1
                /\ UNCHANGED <<pc, err>>
           ELSE /\ err' = r.error
                /\ pc' = "fin"
                /\ UNCHANGED <<fila, n, c>>
    /\ UNCHANGED <<mapa, life, salida, entrada, siguiente, f,
                   forma0, inicial, gen>>

\* life_siguiente: the inner loop is over: siguiente.append(fila)
FilaFin ==
    /\ pc = "for_c"
    /\ c >= Columnas(life)
    /\ siguiente' = Append(siguiente, fila)
    /\ f' = f + 1
    /\ pc' = "for_f"
    /\ UNCHANGED <<mapa, life, salida, entrada, fila, c, n, err,
                   forma0, inicial, gen>>

\* life_siguiente: the outer loop is over: return siguiente
Retornar ==
    /\ pc = "for_f"
    /\ f >= Len(life)
    /\ pc' = "return"
    /\ UNCHANGED <<mapa, life, salida, entrada, siguiente, fila, f, c, n, err,
                   forma0, inicial, gen>>

\* main: life = life_siguiente(life); the locals of the call are gone.
Asignar ==
    /\ pc = "return"
    /\ life' = siguiente
    /\ gen' = gen + 1
    /\ entrada' = <<>>
    /\ siguiente' = <<>>
    /\ fila' = <<>>
    /\ f' = 0
    /\ c' = 0
    /\ n' = 0
    /\ salida' = <<>>
    /\ pc' = "mostrar"
    /\ UNCHANGED <<mapa, err, forma0, inicial>>

\* A caller of cant_adyacentes(life, qf, qc) with a position in or around
\* the board.
LlamarCantAdyacentes ==
    /\ pc = "llamar"
    /\ \E qf \in (0 - Fuera)..(Dim(life)[1] - 1 + Fuera),
          qc \in (0 - Fuera)..(Dim(life)[2] - 1 + Fuera) :
          LET r == cant_adyacentes(life, qf, qc)
          IN  /\ f' = qf
              /\ c' = qc
              /\ n' = r.valor
              /\ err' = r.error
    /\ pc' = "retornado"
    /\ UNCHANGED <<mapa, life, salida, entrada, siguiente, fila,
                   forma0, inicial, gen>>

\* -------------------------------------------------------- specifications
Reposo ==
    /\ salida = <<>>
    /\ entrada = <<>>
    /\ siguiente = <<>>
    /\ fila = <<>>
    /\ f = 0
    /\ c = 0
    /\ n = 0
    /\ err = "none"
    /\ gen = 0

\* The driver loop of main from its first board on.
Init ==
    /\ pc = "mostrar"
    /\ mapa = <<>>
    /\ life \in Rectangulares(MaxCeldas)
                \cup Irregulares(MaxFilasIrregular, MaxColumnasIrregular)
    /\ forma0 = Forma(life)
    /\ inicial = <<>>
    /\ Reposo

Next ==
    \/ Mostrar
    \/ Interrumpir
    \/ Enter
    \/ FilaInicio
    \/ CeldaPaso
    \/ FilaFin
    \/ Retornar
    \/ Asignar

Spec == Init /\ [][Next]_vars

\* life_crear and life_mostrar applied to a list of strings.
InitCodec ==
    /\ pc = "crear"
    /\ mapa \in Mapas(MaxFilasIrregular, MaxColumnasIrregular)
    /\ life = <<>>
    /\ forma0 = <<>>
    /\ inicial = <<>>
    /\ Reposo

NextCodec == Crear \/ Mostrar

SpecCodec == InitCodec /\ [][NextCodec]_vars

\* cant_adyacentes applied to a board and a position.
InitVecinos ==
    /\ pc = "llamar"
    /\ mapa = <<>>
    /\ life \in Irregulares(MaxFilasIrregular, MaxColumnasIrregular)
    /\ forma0 = Forma(life)
    /\ inicial = <<>>
    /\ Reposo

NextVecinos == LlamarCantAdyacentes

SpecVecinos == InitVecinos /\ [][NextVecinos]_vars

\* The driver loop of main started on three live cells side by side in one
\* row of an otherwise dead board of at least 5x5 (columns taken around the
\* torus).
Blinker(r, w, bf, bc) ==
    [k \in 1..r |-> [j \in 1..w |-> k - 1 = bf /\ ((j - 1 - bc) % w) \in 0..2]]

Blinkers ==
    {Blinker(d[1], d[2], d[3], d[4]) :
     d \in {e \in (5..MaxFilasBlinker) \X (5..MaxColumnasBlinker)
                  \X (0..(MaxFilasBlinker - 1)) \X (0..(MaxColumnasBlinker - 1)) :
            e[3] < e[1] /\ e[4] < e[2]}}

InitBlinker ==
    /\ pc = "mostrar"
    /\ mapa = <<>>
    /\ life \in Blinkers
    /\ forma0 = Forma(life)
    /\ inicial = life
    /\ Reposo

SpecBlinker == InitBlinker /\ [][Next]_vars

\* ------------------------------------------------------------ properties
\* What the properties say about a board, stated without the loops of the
\* program.
EsRectangular(g) ==
    /\ Len(g) >= 1
    /\ Len(g[1]) >= 1
    /\ \A k \in 1..Len(g) : Len(g[k]) = Len(g[1])

\* The cell at row a, column b of the torus.
Viva(g, a, b) == g[(a % Len(g)) + 1][(b % Len(g[1])) + 1]

Desplazamientos == {d \in {-1, 0, 1} \X {-1, 0, 1} : d # <<0, 0>>}

\* Number of the 8 offsets whose cell on the torus is alive.
VecinasVivas(g, a, b) ==
    Cardinality({d \in Desplazamientos : Viva(g, a + d[1], b + d[2])})

Regla(g, a, b) ==
    \/ Viva(g, a, b) /\ VecinasVivas(g, a, b) \in {2, 3}
    \/ ~Viva(g, a, b) /\ VecinasVivas(g, a, b) = 3

EnLlamada == pc \in {"for_f", "for_c", "return"}

SoloEsquina == <<<<TRUE, FALSE, FALSE>>, <<FALSE, FALSE, FALSE>>,
                 <<FALSE, FALSE, FALSE>>>>

\* C1: while life_siguiente runs on a rectangular board, every cell already
\* placed in the row or in the board being built is alive exactly when the
\* birth/survival rule, counted on the board passed in, says so; and the board
\* returned has a cell for every position of the board passed in.
C1_ReglaPorCelda ==
    (EnLlamada /\ EsRectangular(entrada)) =>
        /\ \A k \in 1..Len(siguiente) : \A j \in 1..Len(siguiente[k]) :
               siguiente[k][j] = Regla(entrada, k - 1, j - 1)
        /\ pc = "for_c" =>
               \A j \in 1..Len(fila) : fila[j] = Regla(entrada, f, j - 1)
        /\ pc = "return" => Forma(siguiente) = Forma(entrada)

\* A returned board in which one cell was born, one survived and one died.
C1_Witness ==
    /\ pc = "return"
    /\ EsRectangular(entrada)
    /\ \E k \in 1..Len(entrada) : \E j \in 1..Len(entrada[1]) :
           ~entrada[k][j] /\ siguiente[k][j]
    /\ \E k \in 1..Len(entrada) : \E j \in 1..Len(entrada[1]) :
           entrada[k][j] /\ siguiente[k][j]
    /\ \E k \in 1..Len(entrada) : \E j \in 1..Len(entrada[1]) :
           entrada[k][j] /\ ~siguiente[k][j]

\* C2: on a rectangular board the count cant_adyacentes returns for the cell
\* just computed is in 0..8 and is the number of the 8 offsets whose cell,
\* taken modulo the row and column counts, is alive; on the 3x3 board with
\* only (0,0) alive the count for (2,2) is 1.
C2_CuentaToroidal ==
    (pc = "for_c" /\ Len(fila) >= 1 /\ EsRectangular(life)) =>
        /\ n \in 0..8
        /\ n = VecinasVivas(life, f, Len(fila) - 1)
        /\ (life = SoloEsquina /\ f = 2 /\ Len(fila) = 3) => n = 1

C2_Witness ==
    /\ pc = "for_c"
    /\ life = SoloEsquina
    /\ f = 2
    /\ Len(fila) = 3
    /\ n = 1

\* The two recognised symbols only, and all lines of one length.
MismoLargo(m) == \A k \in 1..Len(m) : Len(m[k]) = Len(m[1])

BienFormado(m) ==
    /\ MismoLargo(m)
    /\ \A k \in 1..Len(m) : \A j \in 1..Len(m[k]) : m[k][j] \in {".", "#"}

\* C3: for equal-length lines over '.' and '#', life_mostrar(life_crear(lines))
\* is the list of lines itself.
C3_IdaYVuelta ==
    (pc = "input" /\ BienFormado(mapa)) => salida = mapa

C3_Witness ==
    /\ pc = "input"
    /\ BienFormado(mapa)
    /\ Len(mapa) = 2
    /\ mapa[1] = <<"#", ".">>
    /\ mapa[2] = <<".", "#">>
    /\ salida = mapa

FormaRectangular(fo) ==
    /\ Len(fo) >= 1
    /\ fo[1] >= 1
    /\ \A k \in 1..Len(fo) : fo[k] = fo[1]

\* C4: started on a rectangular board, after any number of generations the
\* current board and every board returned have the row lengths of the first
\* board, and no call ends in an exception (only CTRL+C ends the program).
C4_DimensionesInvariantes ==
    FormaRectangular(forma0) =>
        /\ Forma(life) = forma0
        /\ pc = "return" => Forma(siguiente) = forma0
        /\ err \in {"none", "KeyboardInterrupt"}
        /\ pc = "fin" => err = "KeyboardInterrupt"

\* Two generations done on a board that is not square and still has a live
\* cell.
C4_Witness ==
    /\ FormaRectangular(forma0)
    /\ gen = 2
    /\ pc = "mostrar"
    /\ Len(forma0) # forma0[1]
    /\ \E k \in 1..Len(life) : \E j \in 1..Len(life[k]) : life[k][j]

\* C5: from the call of life_siguiente to its return, and when it ends in an
\* exception, the board passed in is what it was at the call.
C5_EntradaIntacta ==
    /\ EnLlamada => life = entrada
    /\ (pc = "fin" /\ err # "KeyboardInterrupt") => life = entrada

\* The call returns a board that differs from the one passed in.
C5_Witness ==
    /\ pc = "return"
    /\ life = entrada
    /\ EsRectangular(life)
    /\ siguiente # life

\* C6 as stated: life_crear on lines of unequal length ends with InvalidShape
\* and produces no board.
C6_FormaInvalida ==
    (pc # "crear" /\ ~MismoLargo(mapa)) => (err = "InvalidShape" /\ life = <<>>)

\* C6 as amended: life_crear on lines of unequal length raises nothing and
\* returns a board with one row per line, each row as long as its line.
C6_TableroIrregular ==
    (pc # "crear" /\ ~MismoLargo(mapa)) =>
        /\ err = "none"
        /\ Forma(life) = Forma(mapa)
        /\ \A k \in 1..Len(mapa) : \A j \in 1..Len(mapa[k]) :
               life[k][j] = (mapa[k][j] = "#")

C6_Witness ==
    /\ pc = "mostrar"
    /\ Forma(mapa) = <<1, 2>>
    /\ Forma(life) = <<1, 2>>
    /\ err = "none"

\* C7 as stated: on a 1x1 board cant_adyacentes(G, 0, 0) is 0 whatever the
\* cell.
C7_UnoPorUnoCero ==
    (pc = "retornado" /\ Forma(life) = <<1>> /\ f = 0 /\ c = 0) => n = 0

\* C7 as amended: on a 1x1 board cant_adyacentes(G, 0, 0) is 0 when the cell
\* is dead and 8 when it is alive (each of the 8 offsets wraps onto the cell).
C7_UnoPorUnoOcho ==
    (pc = "retornado" /\ Forma(life) = <<1>> /\ f = 0 /\ c = 0) =>
        /\ err = "none"
        /\ n = IF life[1][1] THEN 8 ELSE 0

C7_Witness ==
    /\ pc = "retornado"
    /\ life = <<<<TRUE>>>>
    /\ f = 0
    /\ c = 0
    /\ n = 8

\* C8: on a 1x1 board life_siguiente raises nothing and returns a 1x1 board
\* whose cell is dead.
C8_UnoPorUnoMuere ==
    Forma(entrada) = <<1>> =>
        /\ err = "none"
        /\ pc # "fin"
        /\ pc = "return" => siguiente = <<<<FALSE>>>>

C8_Witness ==
    /\ pc = "return"
    /\ entrada = <<<<TRUE>>>>
    /\ siguiente = <<<<FALSE>>>>

FueraDelTablero(g, a, b) ==
    a < 0 \/ a >= Len(g) \/ b < 0 \/ b >= Dim(g)[2]

\* C9 as stated: cant_adyacentes with a position outside the board ends with
\* OutOfBounds.
C9_FueraDeRango ==
    (pc = "retornado" /\ FueraDelTablero(life, f, c)) => err = "OutOfBounds"

\* C9 as amended: on a rectangular board cant_adyacentes with a position
\* outside the board raises nothing and returns the count of the position
\* (f mod rows, c mod columns).
C9_FueraEnvuelve ==
    (pc = "retornado" /\ EsRectangular(life) /\ FueraDelTablero(life, f, c)) =>
        /\ err = "none"
        /\ n = VecinasVivas(life, f % Len(life), c % Len(life[1]))

C9_Witness ==
    /\ pc = "retornado"
    /\ Forma(life) = <<2, 2>>
    /\ f = 2
    /\ c = -1
    /\ err = "none"
    /\ n > 0

\* Three live cells side by side in one row, all else dead, on at least 5x5.
EsBlinker(g) ==
    /\ EsRectangular(g)
    /\ Len(g) >= 5
    /\ Len(g[1]) >= 5
    /\ \E bf \in 0..(Len(g) - 1) : \E bc \in 0..(Len(g[1]) - 1) :
           \A k \in 1..Len(g) : \A j \in 1..Len(g[1]) :
               g[k][j] <=> (k - 1 = bf /\ ((j - 1 - bc) % Len(g[1])) \in 0..2)

\* C10: started on a blinker, the board after one generation differs from the
\* first board and the board after two generations is the first board.
C10_PeriodoDos ==
    (EsBlinker(inicial) /\ pc = "mostrar") =>
        /\ gen = 1 => life # inicial
        /\ gen = 2 => life = inicial

C10_Witness ==
    /\ EsBlinker(inicial)
    /\ pc = "mostrar"
    /\ gen = 2
    /\ life = inicial
    /\ inicial[1][1]

====
